---- MODULE Spec2Model ----
(***************************************************************************)
(* A model of cm_worker.worker.Worker: one worker process (main loop, log  *)
(* thread, status-updater thread) working against the shared Redis store,  *)
(* together with the external actors that share the store with it: the     *)
(* producers that submit jobs and the supervisor that may revoke a lock.   *)
(*                                                                         *)
(* Abstractions: log entries carry no wall-clock timestamp; a job's        *)
(* argument payload, a handler's result and an error message are drawn     *)
(* from small sets; Redis commands are atomic and never fail.              *)
(***************************************************************************)
EXTENDS Naturals, Sequences, FiniteSets, TLC

\* ------------------------------------------------------------------ bounds
MaxSubmit == 1                  \* jobs submitted by producers in one run
MaxServe == 2                   \* the same, where only the main loop is followed

\* --------------------------------------------------------------- constants
None == "None"                  \* Python None / an absent hash field
Jobs == {"j1", "j2"}            \* job ids producers use
Pipelines == {"concept-map", "b"}
PipelineOrder == <<"concept-map", "b">>   \* registration order of add_pipeline
worker_id == "w"                \* this worker's identity
OtherId == "other"              \* the identity of any other worker
Args == "x1"                    \* a job's argument payload
Results == {"r1"}               \* values a handler may return
Errors == {"boom"}              \* messages of failures a handler may raise
AssertMsg == ""                 \* str(AssertionError())
CleanupQueue == "concept-map"   \* the pipeline named in clean_up's lrem key

VARIABLES
    \* the shared store
    pending,        \* queue:<p>:pending, head = left end
    processing,     \* queue:<p>:processing
    locks,          \* hash locks: job id -> owner
    last_updates,   \* hash last_updates: job id -> timestamp
    jobs,           \* hash jobs: job id -> arguments
    files,          \* hash files: job id -> file
    done,           \* list queue:done
    log,            \* list log
    \* the worker's fields
    job_id, is_exiting, log_queue,
    \* the main thread: position and locals of start()
    pc, pipeline, job_id_queue, job, result, error,
    \* the two daemon threads
    log_pc, hb_pc,
    \* the environment
    submitted,
    \* history of the current iteration and of the log queue
    h_pushed, h_held_ret, h_held_chk, enqueued

store == <<pending, processing, locks, last_updates, jobs, files, done, log>>
fields == <<job_id, is_exiting, log_queue>>
locals == <<pc, pipeline, job_id_queue, job, result, error>>
threads == <<log_pc, hb_pc>>
hist == <<h_pushed, h_held_ret, h_held_chk, enqueued>>
vars == <<store, fields, locals, threads, submitted, hist>>

\* ----------------------------------------------------------- Redis commands
lpush(q, x) == <<x>> \o q
rpush(q, x) == Append(q, x)
lrem_all(q, x) == SelectSeq(q, LAMBDA y : y # x)
hdel(h, k) == [h EXCEPT ![k] = None]
hset(h, k, v) == [h EXCEPT ![k] = v]
hget(h, k) == h[k]

Occurs(q, x) == \E i \in 1..Len(q) : q[i] = x

\* brpop(queues, 0): the first key, in the order given, whose list is not
\* empty; 0 when every list is empty (the call blocks).
brpop_key ==
    IF \E i \in 1..Len(PipelineOrder) : pending[PipelineOrder[i]] # <<>>
    THEN CHOOSE i \in 1..Len(PipelineOrder) :
            /\ pending[PipelineOrder[i]] # <<>>
            /\ \A k \in 1..(i-1) : pending[PipelineOrder[k]] = <<>>
    ELSE 0

Front(q) == SubSeq(q, 1, Len(q) - 1)
Last(q) == q[Len(q)]

\* -------------------------------------------------------------- log messages
Msg(kind, j) == [kind |-> kind, job |-> j]
LogEntry(m) == [worker_id |-> worker_id, job_id |-> job_id, message |-> m]

\* Queue.put and Queue.get of the in-process log queue (FIFO)
queue_put(q, m) == Append(q, m)
\* (variant: a LIFO get, as queue.LifoQueue would give)
queue_get_lifo(q) == [item |-> Last(q), rest |-> Front(q)]
queue_get(q) == [item |-> Head(q), rest |-> Tail(q)]

\* ------------------------------------------------------------- pure helpers
\* (variant: the comparison of check_lock inverted)
check_lock_inverted(jid, lk) ==
    IF jid = None THEN "ok"
    ELSE IF hget(lk, jid) = None THEN "AssertionError"
    ELSE IF hget(lk, jid) = worker_id THEN "LockError"
    ELSE "ok"
\* (variant: a lost lock raised as a plain Exception)
check_lock_plain_exception(jid, lk) ==
    IF jid = None THEN "ok"
    ELSE IF hget(lk, jid) # worker_id THEN "AssertionError"
    ELSE "ok"
\* Worker.check_lock: what the call does for current job jid and hash lk
check_lock(jid, lk) ==
    IF jid = None THEN "ok"
    ELSE IF hget(lk, jid) = None THEN "AssertionError"
    ELSE IF hget(lk, jid) # worker_id THEN "LockError"
    ELSE "ok"

\* (variant: the record built from a job_id that was already reset)
ResultRecord_reset(jid, r) == [job_id |-> None, key |-> "result", value |-> r]
\* json.dumps of the two records start() sends
ResultRecord(jid, r) == [job_id |-> jid, key |-> "result", value |-> r]
ErrorRecord(jid, e) == [job_id |-> jid, key |-> "error", value |-> e]

\* Worker.send_result
send_result(d, data) == rpush(d, data)

\* The part of the state Worker.clean_up reads and writes, as a record.
CleanState ==
    [processing |-> processing, last_updates |-> last_updates, locks |-> locks,
     jobs |-> jobs, files |-> files, job_id |-> job_id, raised |-> FALSE]

\* (variant: clean_up without its guard; the Redis client refuses a None
\* argument, so the call raises when no job is tracked)
clean_up_unguarded(s) ==
    IF s.job_id = None THEN [s EXCEPT !.raised = TRUE]
    ELSE [s EXCEPT
            !.processing = [@ EXCEPT ![CleanupQueue] = lrem_all(@, s.job_id)],
            !.last_updates = hdel(@, s.job_id),
            !.locks = hdel(@, s.job_id),
            !.jobs = hdel(@, s.job_id),
            !.files = hdel(@, s.job_id),
            !.job_id = None]
\* Worker.clean_up as a function of that record
clean_up(s) ==
    IF s.job_id = None THEN s
    ELSE [s EXCEPT
            !.processing = [@ EXCEPT ![CleanupQueue] = lrem_all(@, s.job_id)],
            !.last_updates = hdel(@, s.job_id),
            !.locks = hdel(@, s.job_id),
            !.jobs = hdel(@, s.job_id),
            !.files = hdel(@, s.job_id),
            !.job_id = None]

\* --------------------------------------------------------------------- Init
\* The worker starts against a store other workers have used: StaleJob may be
\* there already, left in a processing queue by the worker that owns it.
StaleJob == "j1"
StaleQueue == "concept-map"

Init ==
    /\ pending = [p \in Pipelines |-> <<>>]
    /\ \E stale \in BOOLEAN :
        LET v(x) == [j \in Jobs |-> IF stale /\ j = StaleJob THEN x ELSE None]
        IN /\ processing = [p \in Pipelines |->
                              IF stale /\ p = StaleQueue THEN <<StaleJob>> ELSE <<>>]
           /\ locks = v(OtherId)
           /\ last_updates = v("ts")
           /\ jobs = v(Args)
           /\ files = v("file")
    /\ done = <<>>
    /\ log = <<>>
    /\ job_id = None
    /\ is_exiting = FALSE
    /\ log_queue = <<>>
    /\ pc = "start"
    /\ pipeline = None
    /\ job_id_queue = None
    /\ job = None
    /\ result = None
    /\ error = None
    /\ log_pc = "off"
    /\ hb_pc = "off"
    /\ submitted = 0
    /\ h_pushed = 0
    /\ h_held_ret = FALSE
    /\ h_held_chk = FALSE
    /\ enqueued = <<>>

\* The process is running: the main thread has neither exited nor died.
Alive == pc \notin {"exited", "crashed"}

\* ---------------------------------------------------------- the main thread
\* The end of one iteration of the loop: the locals of start() are dead until
\* the next brpop assigns them again, so they (and the iteration's history)
\* are cleared here rather than carried through Idle.
EndIteration_exit ==
    /\ pc' = "exited"
    /\ pipeline' = None /\ job_id_queue' = None /\ job' = None
    /\ result' = None /\ error' = None
    /\ h_pushed' = 0 /\ h_held_ret' = FALSE /\ h_held_chk' = FALSE

EndIteration ==
    /\ pc' = "idle"
    /\ pipeline' = None /\ job_id_queue' = None /\ job' = None
    /\ result' = None /\ error' = None
    /\ h_pushed' = 0 /\ h_held_ret' = FALSE /\ h_held_chk' = FALSE

\* start(), up to the loop: the two daemon threads are started
Start ==
    /\ pc = "start"
    /\ pc' = "idle"
    /\ log_pc' = "test"
    /\ hb_pc' = "spawned"
    /\ UNCHANGED <<store, fields, pipeline, job_id_queue, job, result, error,
                   submitted, hist>>

\* brpop, the assignment of job_id, lpush onto the processing queue and the
\* 'Received' log message
Claim ==
    /\ pc = "idle"
    /\ brpop_key # 0
    /\ LET p == PipelineOrder[brpop_key]
           j == Last(pending[p])
       IN /\ pending' = [pending EXCEPT ![p] = Front(@)]
          /\ pipeline' = p
          /\ job_id_queue' = j
          /\ job_id' = j
          /\ processing' = [processing EXCEPT ![p] = lpush(@, j)]
          /\ log_queue' = queue_put(log_queue, Msg("received", j))
          /\ enqueued' = Append(enqueued, Msg("received", j))
    /\ pc' = "claimed"
    /\ UNCHANGED <<locks, last_updates, jobs, files, done, log, is_exiting,
                   job, result, error, threads, submitted, h_pushed,
                   h_held_ret, h_held_chk>>

\* hget of the job's arguments (its assert kills the process when they are
\* absent), hset of the lock and the 'Processing' log message
LoadAndLock ==
    /\ pc = "claimed"
    /\ IF hget(jobs, job_id) = None
       THEN /\ pc' = "crashed"
            /\ UNCHANGED <<job, locks, log_queue, enqueued>>
       ELSE /\ job' = hget(jobs, job_id)
            /\ locks' = hset(locks, job_id, worker_id)
            /\ log_queue' = queue_put(log_queue, Msg("processing", job_id))
            /\ enqueued' = Append(enqueued, Msg("processing", job_id))
            /\ pc' = "dispatched"
    /\ UNCHANGED <<pending, processing, last_updates, jobs, files, done, log,
                   job_id, is_exiting, pipeline, job_id_queue, result, error,
                   threads, submitted, h_pushed, h_held_ret, h_held_chk>>

\* the handler call returns a value
HandlerReturns ==
    /\ pc = "dispatched"
    /\ \E r \in Results : result' = r
    /\ h_held_ret' = (locks[job_id] = worker_id)
    /\ pc' = "check"
    /\ UNCHANGED <<store, fields, pipeline, job_id_queue, job, error, threads,
                   submitted, h_pushed, h_held_chk, enqueued>>

\* the handler call raises an ordinary failure
HandlerRaises ==
    /\ pc = "dispatched"
    /\ \E e \in Errors : error' = e
    /\ h_held_ret' = (locks[job_id] = worker_id)
    /\ pc' = "send_error"
    /\ UNCHANGED <<store, fields, pipeline, job_id_queue, job, result, threads,
                   submitted, h_pushed, h_held_chk, enqueued>>

\* the post-handler check_lock() and the except clause its failure selects
CheckLock ==
    /\ pc = "check"
    /\ LET c == check_lock(job_id, locks)
       IN \/ /\ c = "ok"
             /\ pc' = "send_result"
             /\ h_held_chk' = (locks[job_id] = worker_id)
             /\ UNCHANGED <<pipeline, job_id_queue, job, result, error,
                            log_queue, enqueued, h_pushed, h_held_ret>>
          \/ /\ c = "LockError"
             /\ log_queue' = queue_put(log_queue, Msg("lost_lock", job_id))
             /\ enqueued' = Append(enqueued, Msg("lost_lock", job_id))
             /\ EndIteration
          \/ /\ c = "AssertionError"
             /\ error' = AssertMsg
             /\ pc' = "send_error"
             /\ h_held_chk' = (locks[job_id] = worker_id)
             /\ UNCHANGED <<pipeline, job_id_queue, job, result, log_queue,
                            enqueued, h_pushed, h_held_ret>>
    /\ UNCHANGED <<store, job_id, is_exiting, threads, submitted>>

\* json.dumps of the result record and send_result
SendResult ==
    /\ pc = "send_result"
    /\ done' = send_result(done, ResultRecord(job_id, result))
    /\ h_pushed' = h_pushed + Len(done') - Len(done)
    /\ pc' = "clean_up"
    /\ UNCHANGED <<pending, processing, locks, last_updates, jobs, files, log,
                   fields, pipeline, job_id_queue, job, result, error, threads,
                   submitted, h_held_ret, h_held_chk, enqueued>>

\* clean_up on the success path, then the 'Finished' log message
FinishSuccess ==
    /\ pc = "clean_up"
    /\ LET s == clean_up(CleanState)
       IN /\ processing' = s.processing
          /\ last_updates' = s.last_updates
          /\ locks' = s.locks
          /\ jobs' = s.jobs
          /\ files' = s.files
          /\ job_id' = s.job_id
          /\ log_queue' = queue_put(log_queue, Msg("finished", s.job_id))
          /\ enqueued' = Append(enqueued, Msg("finished", s.job_id))
    /\ EndIteration
    /\ UNCHANGED <<pending, done, log, is_exiting, threads, submitted>>

\* except Exception: the error record is sent, then the two log messages
ReportError ==
    /\ pc = "send_error"
    /\ done' = send_result(done, ErrorRecord(job_id, error))
    /\ h_pushed' = h_pushed + Len(done') - Len(done)
    /\ log_queue' = queue_put(queue_put(log_queue, Msg("error", job_id)),
                              Msg("traceback", None))
    /\ enqueued' = enqueued \o <<Msg("error", job_id), Msg("traceback", None)>>
    /\ pc' = "clean_up_err"
    /\ UNCHANGED <<pending, processing, locks, last_updates, jobs, files, log,
                   job_id, is_exiting, pipeline, job_id_queue, job, result,
                   error, threads, submitted, h_held_ret, h_held_chk>>

\* except Exception: clean_up, the last statement of the clause
CleanUpError ==
    /\ pc = "clean_up_err"
    /\ LET s == clean_up(CleanState)
       IN /\ processing' = s.processing
          /\ last_updates' = s.last_updates
          /\ locks' = s.locks
          /\ jobs' = s.jobs
          /\ files' = s.files
          /\ job_id' = s.job_id
    /\ EndIteration
    /\ UNCHANGED <<pending, done, log, is_exiting, log_queue, threads,
                   submitted, enqueued>>

\* (variant: the interrupt handler cleans up before it exits)
KeyboardInterrupt_cleanup ==
    /\ pc = "dispatched"
    /\ pc' = "exited"
    /\ LET s == clean_up(CleanState)
       IN /\ processing' = s.processing
          /\ last_updates' = s.last_updates
          /\ locks' = s.locks
          /\ jobs' = s.jobs
          /\ files' = s.files
          /\ job_id' = s.job_id
    /\ UNCHANGED <<pending, done, log, is_exiting, log_queue, pipeline,
                   job_id_queue, job, result, error, threads, submitted, hist>>
\* KeyboardInterrupt during the handler call: except KeyboardInterrupt runs
\* sys.exit() and the process ends, its daemon threads with it
KeyboardInterrupt ==
    /\ pc = "dispatched"
    /\ pc' = "exited"
    /\ UNCHANGED <<store, fields, pipeline, job_id_queue, job, result, error,
                   threads, submitted, hist>>

\* Worker.stop
\* (variant: a stop() that also discards the messages not yet emitted)
stop_drops_log ==
    /\ ~is_exiting
    /\ is_exiting' = TRUE
    /\ log_queue' = <<>>
    /\ UNCHANGED <<store, job_id, locals, threads, submitted, hist>>

stop ==
    /\ ~is_exiting
    /\ is_exiting' = TRUE
    /\ UNCHANGED <<store, job_id, log_queue, locals, threads, submitted, hist>>

\* ----------------------------------------------------------- the log thread
\* (variant: a loop condition that never reads the exit flag)
LogTest_ignores_flag ==
    /\ Alive
    /\ log_pc = "test"
    /\ log_pc' = "get"
    /\ UNCHANGED <<store, fields, locals, hb_pc, submitted, hist>>
\* log_generator: the while condition
LogTest ==
    /\ Alive
    /\ log_pc = "test"
    /\ log_pc' = IF is_exiting THEN "done" ELSE "get"
    /\ UNCHANGED <<store, fields, locals, hb_pc, submitted, hist>>

\* log_generator: get() returns a message, which is serialised with the
\* job_id of that moment and pushed onto the log list
LogEmit ==
    /\ Alive
    /\ log_pc = "get"
    /\ log_queue # <<>>
    /\ log' = rpush(log, LogEntry(queue_get(log_queue).item))
    /\ log_queue' = queue_get(log_queue).rest
    /\ log_pc' = "test"
    /\ UNCHANGED <<pending, processing, locks, last_updates, jobs, files, done,
                   job_id, is_exiting, locals, hb_pc, submitted, hist>>

\* log_generator: get() times out on an empty queue (except Empty: pass)
LogTimeout ==
    /\ Alive
    /\ log_pc = "get"
    /\ log_queue = <<>>
    /\ log_pc' = "test"
    /\ UNCHANGED <<store, fields, locals, hb_pc, submitted, hist>>

\* -------------------------------------------------------- the status thread
\* Thread(target=status_updater) calls status_updater() without the argument
\* its signature (self) requires: the call raises TypeError and the thread
\* ends before the first iteration of its loop.
status_thread_run ==
    /\ Alive
    /\ hb_pc = "spawned"
    /\ hb_pc' = "dead"
    /\ UNCHANGED <<store, fields, locals, log_pc, submitted, hist>>

\* ---------------------------------------------------------- the environment
\* The store is followed for the lifetime of the worker process.
\* a producer submits job j to pipeline p: arguments, file, pending queue
Submit(p, j) ==
    /\ Alive
    /\ submitted < MaxSubmit
    /\ submitted' = submitted + 1
    /\ jobs' = hset(jobs, j, Args)
    /\ files' = hset(files, j, "file")
    /\ pending' = [pending EXCEPT ![p] = lpush(@, j)]
    /\ UNCHANGED <<processing, locks, last_updates, done, log, fields, locals,
                   threads, hist>>

\* the supervisor hands a job this worker holds to another worker
Reassign(j) ==
    /\ Alive
    /\ locks[j] = worker_id
    /\ locks' = hset(locks, j, OtherId)
    /\ UNCHANGED <<pending, processing, last_updates, jobs, files, done, log,
                   fields, locals, threads, submitted, hist>>

\* the supervisor removes the lock record of a job this worker holds
RemoveLock(j) ==
    /\ Alive
    /\ locks[j] = worker_id
    /\ locks' = hdel(locks, j)
    /\ UNCHANGED <<pending, processing, last_updates, jobs, files, done, log,
                   fields, locals, threads, submitted, hist>>

\* the worker that now owns job j records its liveness
OtherHeartbeat(j) ==
    /\ Alive
    /\ locks[j] = OtherId
    /\ last_updates[j] = None
    /\ last_updates' = hset(last_updates, j, "ts")
    /\ UNCHANGED <<pending, processing, locks, jobs, files, done, log, fields,
                   locals, threads, submitted, hist>>

\* --------------------------------------------------------------------- Next
Main ==
    \/ Start \/ Claim \/ LoadAndLock \/ HandlerReturns \/ HandlerRaises
    \/ CheckLock \/ SendResult \/ FinishSuccess \/ ReportError \/ CleanUpError

Next ==
    \/ Start
    \/ Claim
    \/ LoadAndLock
    \/ HandlerReturns
    \/ HandlerRaises
    \/ CheckLock
    \/ SendResult
    \/ FinishSuccess
    \/ ReportError
    \/ CleanUpError
    \/ KeyboardInterrupt
    \/ stop
    \/ LogTest
    \/ LogEmit
    \/ LogTimeout
    \/ status_thread_run
    \/ \E p \in Pipelines, j \in Jobs : Submit(p, j)
    \/ \E j \in Jobs : Reassign(j)
    \/ \E j \in Jobs : RemoveLock(j)
    \/ \E j \in Jobs : OtherHeartbeat(j)

Spec == Init /\ [][Next]_vars

\* Threads run whenever they can; so does the main thread, except that a
\* handler call may last for ever and brpop may block for ever.
FairSpec ==
    /\ Spec
    /\ WF_vars(status_thread_run)
    /\ WF_vars(LogTest \/ LogEmit \/ LogTimeout)
    /\ WF_vars(Start \/ LoadAndLock \/ CheckLock \/ SendResult \/ FinishSuccess
               \/ ReportError \/ CleanUpError)

\* The main loop alone, with the producers and the supervisor: the handler
\* call always completes, no shutdown signal arrives, and the two threads and
\* stop(), which the main loop never waits for or reads, are left out.
SubmitServe(p, j) ==
    /\ Alive
    /\ submitted < MaxServe
    /\ submitted' = submitted + 1
    /\ jobs' = hset(jobs, j, Args)
    /\ files' = hset(files, j, "file")
    /\ pending' = [pending EXCEPT ![p] = lpush(@, j)]
    /\ UNCHANGED <<processing, locks, last_updates, done, log, fields, locals,
                   threads, hist>>

NextServe ==
    \/ Start
    \/ Claim
    \/ LoadAndLock
    \/ HandlerReturns
    \/ HandlerRaises
    \/ CheckLock
    \/ SendResult
    \/ FinishSuccess
    \/ ReportError
    \/ CleanUpError
    \/ \E p \in Pipelines, j \in Jobs : SubmitServe(p, j)
    \/ \E j \in Jobs : Reassign(j)
    \/ \E j \in Jobs : RemoveLock(j)
    \/ \E j \in Jobs : OtherHeartbeat(j)

ServeSpec == Init /\ [][NextServe]_vars /\ WF_vars(Main)

\* ------------------------------------------------------------------- claims
\* A step that ends an iteration of the main loop (back to Idle)
EndsIteration == pc \notin {"start", "idle"} /\ pc' = "idle"
\* Records this worker has pushed to queue:done in the iteration, as of the
\* end of the current step
PushedAfter == h_pushed + (Len(done') - Len(done))
\* The handler call of the iteration ended by raising / by returning
Raised == pc \in {"send_error", "clean_up_err"} /\ result = None
Returned == result # None
\* The lock record named this worker when the post-handler check read it
HeldAtCheck == IF pc = "check" THEN locks[job_id] = worker_id ELSE h_held_chk
\* A step in which clean_up removes the tracked job's records
CleansUp == job_id # None /\ job_id' = None

\* C1 (as stated): a claimed job whose lock record names this worker when the
\* handler call completes (by return or by failure) has exactly one record
\* pushed to queue:done by the time the loop is back at Idle.
C1_OneRecordIfHeldAtCompletion ==
    [][(EndsIteration /\ h_held_ret) => PushedAfter = 1]_vars

\* C1 (amended): exactly one record is pushed when the handler raised with the
\* lock record naming this worker at that moment, or returned and the lock
\* record named this worker when the post-handler check read it.
C1_OneRecordIfHeldAtCheck ==
    [][(EndsIteration /\ ((Raised /\ h_held_ret) \/ (Returned /\ HeldAtCheck)))
        => PushedAfter = 1]_vars

C1_Witness ==
    pc = "clean_up" /\ Returned /\ h_held_chk /\ h_pushed = 1
    /\ Len(done) > 0 /\ done[Len(done)].job_id = job_id_queue

\* C2: once the Reported or the Errored path has cleaned up job j claimed from
\* pipeline p, j is not in p's processing queue and has no entry in the
\* last_updates, locks and jobs hashes.
C2_AllRecordsAbsentAfterCleanup ==
    [][CleansUp =>
        /\ ~Occurs(processing'[pipeline], job_id)
        /\ last_updates'[job_id] = None
        /\ locks'[job_id] = None
        /\ jobs'[job_id] = None]_vars

\* The lock of the current job was lost before the post-handler check (for a
\* handler that raised: before the call ended)
LostBeforeCheck ==
    /\ pc \in {"check", "send_result", "clean_up", "send_error", "clean_up_err"}
    /\ IF Raised THEN ~h_held_ret ELSE ~HeldAtCheck

\* C3: for a job whose lock was lost before the post-handler check, this
\* worker pushes nothing to queue:done and deletes none of the job's records,
\* whether the handler returned or raised.
C3_NoReportNoCleanupAfterLockLost ==
    [][LostBeforeCheck => (done' = done /\ ~CleansUp)]_vars

\* C4: whenever the worker pushes to queue:done or deletes the records of job
\* j, the lock record of j names this worker at that moment.
C4_ActsOnlyAsLockOwner ==
    [][(done' # done \/ CleansUp) => locks[job_id] = worker_id]_vars

\* C5: the post-handler lock check continues silently when the stored owner
\* is this worker, and takes the LockLost path (no report, no cleanup, back to
\* Idle) whenever it is not, an absent lock record included.
C5_LockCheckOutcome ==
    [][(pc = "check" /\ pc' # "check") =>
        IF locks[job_id] = worker_id
        THEN pc' = "send_result"
        ELSE pc' = "idle" /\ done' = done /\ job_id' = job_id]_vars

\* C6: every record pushed to queue:done carries the id of the job claimed in
\* this iteration, with the handler's return value as result on the success
\* path and the failure's message as error on the failure path.
C6_RecordCarriesClaimedJob ==
    [][done' # done =>
        /\ Len(done') = Len(done) + 1
        /\ SubSeq(done', 1, Len(done)) = done
        /\ LET rec == done'[Len(done')]
           IN /\ rec.job_id = job_id_queue
              /\ rec.job_id \in Jobs
              /\ \/ pc = "send_result" /\ rec.key = "result"
                    /\ rec.value = result /\ result \in Results
                 \/ pc = "send_error" /\ rec.key = "error"
                    /\ rec.value = error /\ error \in Errors \cup {AssertMsg}]_vars

C6_Witness ==
    /\ Len(done) > 0
    /\ done[Len(done)].key = "result"
    /\ done[Len(done)].job_id \in Jobs

\* C7: the claim step moves the job from the tail of p's pending queue to the
\* head of p's processing queue, and no step of the worker removes from the
\* pending queue or changes the processing queue of another pipeline.
C7_OnlyOwnQueues ==
    [][/\ (pc = "idle" /\ pc' = "claimed") =>
            /\ pending[pipeline'] = Append(pending'[pipeline'], job_id')
            /\ processing'[pipeline'] = <<job_id'>> \o processing[pipeline']
       /\ \A q \in Pipelines :
            (processing'[q] # processing[q] \/ Len(pending'[q]) < Len(pending[q]))
                => q = (IF pc = "idle" THEN pipeline' ELSE pipeline)]_vars

\* C8: clean_up twice gives the state clean_up once gives, neither call
\* raises, and clean_up with no job tracked changes nothing.
C8_CleanUpIdempotent ==
    LET once == clean_up(CleanState)
        twice == clean_up(once)
    IN /\ twice = once
       /\ ~once.raised /\ ~twice.raised
       /\ (job_id = None => once = CleanState)
       /\ once.job_id = None

C8_Witness ==
    /\ pc = "idle" /\ job_id = None /\ done # <<>>
    /\ clean_up(CleanState) = CleanState

\* The worker holds a job: from the lock write to the outcome of the check,
\* with the lock record still naming it
Held == pc \in {"dispatched", "check"} /\ locks[job_id] = worker_id

\* C9: while a job is held and the exit flag is not set, the status thread
\* eventually writes a last_updates entry for that job.
C9_LivenessWritten ==
    [](( Held /\ ~is_exiting) =>
        <>(~Held \/ is_exiting \/ last_updates[job_id] # None))

\* C10: the messages on the log list are, in order, a prefix of the messages
\* put on the log queue: what is not yet on the list is what the queue holds.
LogMessages == [i \in 1..Len(log) |-> log[i].message]
C10_LogKeepsOrder ==
    /\ Len(log) <= Len(enqueued)
    /\ LogMessages = SubSeq(enqueued, 1, Len(log))
    /\ log_queue = SubSeq(enqueued, Len(log) + 1, Len(enqueued))

C10_Witness ==
    /\ Len(log) >= 3
    /\ log[1].message # log[2].message
    /\ log[2].message # log[3].message

\* C11: with the emitter scheduled fairly, every message put on the log
\* queue is eventually appended to the log list (the queue is drained),
\* whether it was put before or after stop() set the exit flag.
C11_EveryMessageDelivered ==
    [](log_queue # <<>> => <>(log_queue = <<>> \/ ~Alive))

\* C12: a shutdown signal during the handler call ends the process at once:
\* the step pushes nothing and deletes nothing, the job's processing-queue
\* entry, lock record and argument record stay as they were, and nothing
\* changes after the exit.
C12_InterruptLeavesRecords ==
    [][/\ (pc = "dispatched" /\ pc' = "exited") =>
            /\ UNCHANGED <<store, job_id>>
            /\ h_pushed = 0
            /\ Occurs(processing'[pipeline], job_id)
            /\ jobs'[job_id] = job
            /\ locks'[job_id] = locks[job_id]
       /\ pc = "exited" => UNCHANGED <<store, job_id, log_queue, threads>>]_vars

C12_Witness ==
    /\ pc = "exited" /\ job_id \in Jobs /\ done = <<>>
    /\ locks[job_id] = worker_id /\ jobs[job_id] # None
    /\ Occurs(processing[pipeline], job_id)

\* The records of the store that clean_up deletes from
Records == <<pending, processing, locks, last_updates, jobs, files, done>>

C14_LockLostPath ==
    [][(pc = "check" /\ pc' # "check" /\ locks[job_id] \notin {None, worker_id}) =>
        /\ pc' = "idle"
        /\ enqueued' = Append(enqueued, Msg("lost_lock", job_id))
        /\ log_queue' = Append(log_queue, Msg("lost_lock", job_id))
        /\ UNCHANGED Records
        /\ job_id' = job_id
        /\ h_pushed = 0]_vars

C14_Witness ==
    /\ pc = "idle" /\ job_id \in Jobs /\ done = <<>>
    /\ Len(enqueued) > 0 /\ enqueued[Len(enqueued)] = Msg("lost_lock", job_id)
    /\ locks[job_id] = OtherId /\ jobs[job_id] # None

\* C15: whenever the main loop is at (or blocked in) the pending pop, the
\* current job id is None.
C15_NoJobWhenIdle == pc = "idle" => job_id = None

\* C16: the status thread ends only because the exit flag is set: while the
\* process runs and the flag is unset, a started status thread is still in
\* its loop.
C16_ReporterRunsUntilStop ==
    (Alive /\ hb_pc = "dead") => is_exiting

\* C17: clean_up for the tracked job j removes every occurrence of j from the
\* processing queue of j's pipeline, deletes j's last_updates, locks and jobs
\* entries and clears job_id; the entries of other jobs, the pending queues,
\* queue:done, the log list and every other table stay as they are.
C17_CleanupFrame ==
    [][CleansUp =>
        /\ processing' = [processing EXCEPT
                            ![pipeline] = SelectSeq(@, LAMBDA y : y # job_id)]
        /\ last_updates' = [last_updates EXCEPT ![job_id] = None]
        /\ locks' = [locks EXCEPT ![job_id] = None]
        /\ jobs' = [jobs EXCEPT ![job_id] = None]
        /\ UNCHANGED <<pending, done, log, files>>]_vars

C19_LogEntryNamesItsJob ==
    \A i \in 1..Len(log) :
        log[i].message.kind \in {"received", "processing", "finished",
                                 "lost_lock", "error"} =>
            /\ log[i].message.job \in Jobs
            /\ log[i].job_id = log[i].message.job

\* C20: stop() changes the exit flag and nothing else, and whether the main
\* loop can take its next step never depends on the flag: it is blocked only
\* in brpop with every pending queue empty.
C20_StopOnlySetsFlag ==
    /\ [][is_exiting' # is_exiting =>
            UNCHANGED <<store, job_id, log_queue, locals, threads>>]_vars
    /\ [](pc \in {"idle", "claimed", "dispatched", "check", "send_result",
                  "clean_up", "send_error", "clean_up_err"} =>
            (ENABLED Main <=> (pc # "idle" \/ brpop_key # 0)))

C20_Witness ==
    /\ is_exiting /\ log_pc = "done"
    /\ pc = "clean_up" /\ h_pushed = 1
    /\ done # <<>> /\ job_id \in Jobs

====
